---- MODULE Spec2Model ----
(***************************************************************************)
(* Action resolution and turn handling of the roguelike:                   *)
(*   src/actions.py         Action, EscapeAction, WaitAction,              *)
(*                          MeleeAction, MovementAction, BumpAction        *)
(*   src/input_handlers.py  EventHandler.handle_events / handle_action,    *)
(*                          MainGameEventHandler, HistoryViewer            *)
(* The game map, the fighter component, the message log and the engine     *)
(* are collaborators whose code is not part of src/; they are modelled     *)
(* from their description in spec.md (sections 3, 4.2 and 6).              *)
(***************************************************************************)
EXTENDS Integers, Sequences, FiniteSets, TLC

\* ------------------------------------------------------------------ bounds
\* The map is Width x Height tiles; the message log holds at most MaxLog
\* messages (an event whose handling would exceed it is not delivered).
Width == 3
Height == 3
MaxLog == 2

\* ------------------------------------------------------------ the world
\* Entities of the map: the player, one hostile actor and one blocking
\* entity that is not an actor (it has no fighter).
Entities == {"player", "orc", "crate"}
Actors == {"player", "orc"}
BlocksMovement == {"player", "orc", "crate"}

None == "None"

\* Non-walkable tiles (walls) of the map: every tile off the top row and
\* the left column.
Walls == {<<x, y>> : x \in 1..(Width - 1), y \in 1..(Height - 1)}

\* GameMap.in_bounds(x, y)
in_bounds(x, y) == 0 <= x /\ x < Width /\ 0 <= y /\ y < Height

\* GameMap.tiles["walkable"][x, y]; only defined inside the array
is_walkable(x, y) == <<x, y>> \notin Walls

\* Colours of the colour module, as categories.
player_atk == "player_atk"
enemy_atk == "enemy_atk"
impossible == "impossible"

\* str.capitalize() on the entity names in use
capitalize(name) ==
    CASE name = "player" -> "Player"
      [] name = "orc" -> "Orc"
      [] name = "crate" -> "Crate"
      [] OTHER -> name

\* Initial fighters.  The orc's is one of OrcFighters.
PlayerFighter == [hp |-> 2, max_hp |-> 2, defense |-> 1, power |-> 5]
OrcFighters ==
    { [hp |-> 10, max_hp |-> 10, defense |-> 2, power |-> 4],
      [hp |-> 4, max_hp |-> 4, defense |-> 2, power |-> 4],
      [hp |-> 10, max_hp |-> 10, defense |-> 10, power |-> 1] }

\* ------------------------------------------------------- input alphabet
\* tcod.event key symbols
MOVE_KEYS ==
    [ K_UP |-> <<0, -1>>, K_DOWN |-> <<0, 1>>, K_LEFT |-> <<-1, 0>>,
      K_RIGHT |-> <<1, 0>>, K_HOME |-> <<-1, -1>>, K_END |-> <<-1, 1>>,
      K_PAGEUP |-> <<1, -1>>, K_PAGEDOWN |-> <<1, 1>>,
      K_KP_1 |-> <<-1, 1>>, K_KP_2 |-> <<0, 1>>, K_KP_3 |-> <<1, 1>>,
      K_KP_4 |-> <<-1, 0>>, K_KP_6 |-> <<1, 0>>, K_KP_7 |-> <<-1, -1>>,
      K_KP_8 |-> <<0, -1>>, K_KP_9 |-> <<1, -1>> ]

WAIT_KEYS == {"K_PERIOD", "K_KP_5", "K_CLEAR"}

CURSOR_Y_KEYS ==
    [ K_UP |-> -1, K_DOWN |-> 1, K_PAGEUP |-> -10, K_PAGEDOWN |-> 10 ]

\* Keys delivered to the handlers: the arrow and navigation keys (every
\* direction of MOVE_KEYS, every key the history viewer tests), one keypad
\* move key, two wait keys, the history key, escape, and one unmapped key.
Keys ==
    {"K_UP", "K_DOWN", "K_LEFT", "K_RIGHT", "K_HOME", "K_END", "K_PAGEUP",
     "K_PAGEDOWN", "K_KP_1", "K_PERIOD", "K_KP_5", "K_v", "K_ESCAPE", "K_a"}

\* Tiles reported by mouse motion events: one of the map, one outside it.
MouseTiles == {<<1, 0>>, <<Width, 0>>}

\* The classes of event handler an engine may hold.
Handlers == {"MainGame", "HistoryViewer", "GameOver"}

\* The eight directions.
Dirs == {<<dx, dy>> : dx \in {-1, 0, 1}, dy \in {-1, 0, 1}} \ {<<0, 0>>}

VARIABLES
    pos,        \* entity -> <<x, y>>              (Entity.x, Entity.y)
    fighter,    \* actor -> [hp, max_hp, defense, power]   (Actor.fighter)
    messages,   \* engine.message_log.messages, oldest first
    handler,    \* class of engine.event_handler
    cursor,     \* HistoryViewer.cursor
    log_length, \* HistoryViewer.log_length
    running,    \* FALSE once SystemExit has left handle_events
    last,       \* record of the most recent handle_events / handle_action
    mouse_location  \* engine.mouse_location

vars == <<pos, fighter, messages, handler, cursor, log_length, running, last,
          mouse_location>>

\* ------------------------------------------------ collaborators (spec.md)
\* A world w is the part of the engine an Action reads and writes:
\*   [pos |-> ..., fighter |-> ..., messages |-> ...]
World(p, f, m) == [pos |-> p, fighter |-> f, messages |-> m]

Max(a, b) == IF a >= b THEN a ELSE b
Min(a, b) == IF a <= b THEN a ELSE b

\* GameMap.get_actor_at_location(x, y): the actor standing at (x, y), or None
get_actor_at_location(w, x, y) ==
    LET found == {a \in Actors : w.pos[a] = <<x, y>>}
    IN  IF found = {} THEN None ELSE CHOOSE a \in found : TRUE

\* GameMap.get_blocking_entity_at_location(x, y)
get_blocking_entity_at_location(w, x, y) ==
    LET found == {e \in BlocksMovement : w.pos[e] = <<x, y>>}
    IN  IF found = {} THEN None ELSE CHOOSE e \in found : TRUE

\* MessageLog.add_message(text, fg): append one message
add_message(w, text, fg) ==
    [w EXCEPT !.messages = Append(@, [text |-> text, fg |-> fg])]

\* Fighter.hp setter: the stored value is clamped to 0..max_hp
set_hp(w, a, value) ==
    [w EXCEPT !.fighter[a].hp = Max(0, Min(value, w.fighter[a].max_hp))]

\* Entity.move(dx, dy)
move(w, e, dx, dy) ==
    [w EXCEPT !.pos[e] = <<w.pos[e][1] + dx, w.pos[e][2] + dy>>]

\* str(n) of an integer, as the sequence of its characters
Digit(n) == CASE n = 0 -> "0" [] n = 1 -> "1" [] n = 2 -> "2" [] n = 3 -> "3"
              [] n = 4 -> "4" [] n = 5 -> "5" [] n = 6 -> "6" [] n = 7 -> "7"
              [] n = 8 -> "8" [] n = 9 -> "9"

RECURSIVE NatStr(_)
NatStr(n) == IF n < 10 THEN <<Digit(n)>> ELSE NatStr(n \div 10) \o <<Digit(n % 10)>>

IntStr(n) == IF n < 0 THEN <<"-">> \o NatStr(-n) ELSE NatStr(n)

\* -------------------------------------------------------- src/actions.py
\* An Action value: its class, the entity it is bound to and, for an
\* ActionWithDirection, dx and dy.
\* An action of a class defined outside actions.py, whose perform() raises
\* exceptions.Impossible(reason), carries the reason.
Action(kind, entity, dx, dy) ==
    [kind |-> kind, entity |-> entity, dx |-> dx, dy |-> dy, reason |-> <<>>]
NoAction == Action(None, None, 0, 0)
RaisingAction(entity, reason) == [Action("Raising", entity, 0, 0) EXCEPT !.reason = reason]
ImpossibleReasons == {<<"That way is blocked.">>}

\* The result of perform(): the world it leaves, how it ended ("ok": it
\* returned, "Impossible" / "SystemExit": it raised), the reason carried by
\* an Impossible, and the calls it made, in order.
Result(w, outcome, reason, trace) ==
    [w |-> w, outcome |-> outcome, reason |-> reason, trace |-> trace]

\* ActionWithDirection.dest_xy
dest_xy(w, a) == <<w.pos[a.entity][1] + a.dx, w.pos[a.entity][2] + a.dy>>

\* ActionWithDirection.blocking_entity
blocking_entity(w, a) ==
    get_blocking_entity_at_location(w, dest_xy(w, a)[1], dest_xy(w, a)[2])

\* ActionWithDirection.target_actor
target_actor(w, a) ==
    get_actor_at_location(w, dest_xy(w, a)[1], dest_xy(w, a)[2])

\* EscapeAction.perform
EscapePerform(w, a) == Result(w, "SystemExit", <<>>, <<>>)

\* WaitAction.perform narrating the wait
WaitPerform_narrated(w, a) ==
    Result(add_message(w, <<"You wait.">>, player_atk), "ok", <<>>, <<"add_message">>)

\* WaitAction.perform
WaitPerform(w, a) == Result(w, "ok", <<>>, <<>>)

\* The attack colour with the test of the attacker left out
attack_color_always_player(a) == player_atk

\* The attack colour chosen by MeleeAction.perform
attack_color(a) == IF a.entity = "player" THEN player_atk ELSE enemy_atk

\* The damage with the target's defense left out
Damage_ignores_defense(w, a, target) == w.fighter[a.entity].power

\* damage = self.entity.fighter.power - target.fighter.defense
Damage(w, a, target) == w.fighter[a.entity].power - w.fighter[target].defense

\* attack_desc = f"{self.entity.name.capitalize()} attacks {target.name}"
attack_desc(a, target) == <<capitalize(a.entity), " attacks ", target>>

\* MeleeAction.perform writing the hit points past the Fighter.hp setter
MeleePerform_raw_hp(w, a) ==
    LET target == target_actor(w, a)
        damage == Damage(w, a, target)
    IN  IF target = None
        THEN Result(w, "ok", <<>>, <<"target_actor">>)
        ELSE IF damage > 0
        THEN Result(
               [add_message(w,
                            attack_desc(a, target) \o <<" for ">>
                              \o IntStr(damage) \o <<" hit points.">>,
                            attack_color(a))
                  EXCEPT !.fighter[target].hp = @ - damage],
               "ok", <<>>, <<"target_actor", "add_message", "hp">>)
        ELSE Result(
               add_message(w, attack_desc(a, target) \o <<" but does no damage">>,
                           attack_color(a)),
               "ok", <<>>, <<"target_actor", "add_message">>)

\* MeleeAction.perform
MeleePerform(w, a) ==
    LET target == target_actor(w, a)
        damage == Damage(w, a, target)
    IN  IF target = None
        THEN Result(w, "ok", <<>>, <<"target_actor">>)
        ELSE IF damage > 0
        THEN Result(
               set_hp(add_message(w,
                                  attack_desc(a, target) \o <<" for ">>
                                    \o IntStr(damage) \o <<" hit points.">>,
                                  attack_color(a)),
                      target, w.fighter[target].hp - damage),
               "ok", <<>>, <<"target_actor", "add_message", "hp">>)
        ELSE Result(
               add_message(w, attack_desc(a, target) \o <<" but does no damage">>,
                           attack_color(a)),
               "ok", <<>>, <<"target_actor", "add_message">>)

\* MovementAction.perform without the test for a blocking entity
MovementPerform_no_blocking(w, a) ==
    LET dest == dest_xy(w, a)
    IN  IF ~in_bounds(dest[1], dest[2])
        THEN Result(w, "ok", <<>>, <<"in_bounds">>)
        ELSE IF ~is_walkable(dest[1], dest[2])
        THEN Result(w, "ok", <<>>, <<"in_bounds", "walkable">>)
        ELSE Result(move(w, a.entity, a.dx, a.dy), "ok", <<>>,
                    <<"in_bounds", "walkable", "blocking_entity", "move">>)

\* MovementAction.perform looking the tile up before checking the bounds
MovementPerform_walkable_first(w, a) ==
    LET dest == dest_xy(w, a)
    IN  IF ~is_walkable(dest[1], dest[2])
        THEN Result(w, "ok", <<>>, <<"walkable">>)
        ELSE IF ~in_bounds(dest[1], dest[2])
        THEN Result(w, "ok", <<>>, <<"walkable", "in_bounds">>)
        ELSE IF blocking_entity(w, a) # None
        THEN Result(w, "ok", <<>>, <<"walkable", "in_bounds", "blocking_entity">>)
        ELSE Result(move(w, a.entity, a.dx, a.dy), "ok", <<>>,
                    <<"walkable", "in_bounds", "blocking_entity", "move">>)

\* MovementAction.perform moving along x only
MovementPerform_drops_dy(w, a) ==
    LET dest == dest_xy(w, a)
    IN  IF ~in_bounds(dest[1], dest[2])
        THEN Result(w, "ok", <<>>, <<"in_bounds">>)
        ELSE IF ~is_walkable(dest[1], dest[2])
        THEN Result(w, "ok", <<>>, <<"in_bounds", "walkable">>)
        ELSE IF blocking_entity(w, a) # None
        THEN Result(w, "ok", <<>>, <<"in_bounds", "walkable", "blocking_entity">>)
        ELSE Result(move(w, a.entity, a.dx, 0), "ok", <<>>,
                    <<"in_bounds", "walkable", "blocking_entity", "move">>)

\* MovementAction.perform
MovementPerform(w, a) ==
    LET dest == dest_xy(w, a)
    IN  IF ~in_bounds(dest[1], dest[2])
        THEN Result(w, "ok", <<>>, <<"in_bounds">>)
        ELSE IF ~is_walkable(dest[1], dest[2])
        THEN Result(w, "ok", <<>>, <<"in_bounds", "walkable">>)
        ELSE IF blocking_entity(w, a) # None
        THEN Result(w, "ok", <<>>, <<"in_bounds", "walkable", "blocking_entity">>)
        ELSE Result(move(w, a.entity, a.dx, a.dy), "ok", <<>>,
                    <<"in_bounds", "walkable", "blocking_entity", "move">>)

\* The result r of a delegate, with the calls made before it put in front.
Delegated(before, r) == [r EXCEPT !.trace = before \o @]

\* BumpAction.perform choosing the attack on any blocking entity
BumpPerform_blocking_lookup(w, a) ==
    IF blocking_entity(w, a) # None
    THEN Delegated(<<"target_actor", "MeleeAction">>,
                   MeleePerform(w, Action("Melee", a.entity, a.dx, a.dy)))
    ELSE Delegated(<<"target_actor", "MovementAction">>,
                   MovementPerform(w, Action("Movement", a.entity, a.dx, a.dy)))

\* BumpAction.perform with the two delegates exchanged
BumpPerform_swapped(w, a) ==
    IF target_actor(w, a) = None
    THEN Delegated(<<"target_actor", "MeleeAction">>,
                   MeleePerform(w, Action("Melee", a.entity, a.dx, a.dy)))
    ELSE Delegated(<<"target_actor", "MovementAction">>,
                   MovementPerform(w, Action("Movement", a.entity, a.dx, a.dy)))

\* BumpAction.perform
BumpPerform(w, a) ==
    IF target_actor(w, a) # None
    THEN Delegated(<<"target_actor", "MeleeAction">>,
                   MeleePerform(w, Action("Melee", a.entity, a.dx, a.dy)))
    ELSE Delegated(<<"target_actor", "MovementAction">>,
                   MovementPerform(w, Action("Movement", a.entity, a.dx, a.dy)))

\* perform() of an action that cannot be carried out: raise Impossible
RaisingPerform(w, a) == Result(w, "Impossible", a.reason, <<>>)

\* action.perform(), dispatched on the action's class
Perform(w, a) ==
    CASE a.kind = "Escape" -> EscapePerform(w, a)
      [] a.kind = "Wait" -> WaitPerform(w, a)
      [] a.kind = "Melee" -> MeleePerform(w, a)
      [] a.kind = "Movement" -> MovementPerform(w, a)
      [] a.kind = "Bump" -> BumpPerform(w, a)
      [] a.kind = "Raising" -> RaisingPerform(w, a)

\* ------------------------------------------------- engine (spec.md 4.2)
\* What the hostile actor may do in its turn.  Its decision logic is not
\* modelled: it waits, or it attacks in a direction where an actor stands
\* (an attack in any other direction finds no target and changes nothing).
EnemyChoices == {"wait", "attack"}

EnemyAttacks(w) ==
    {a \in {Action("Melee", "orc", d[1], d[2]) : d \in Dirs} : target_actor(w, a) # None}

\* Engine.handle_enemy_turns(): every non-player actor takes its turn
handle_enemy_turns(w, ai) ==
    IF ai = "attack" /\ EnemyAttacks(w) # {}
    THEN Perform(w, CHOOSE a \in EnemyAttacks(w) : TRUE).w
    ELSE w

\* -------------------------------------------------- src/input_handlers.py
\* What one handle_action call did: the world it leaves (w), the world
\* perform() left (post), how perform() ended, the value returned
\* ("True", "False", or "raised" when an exception left handle_action), and
\* the collaborator calls made by handle_action (calls) and by perform()
\* (trace), in order.
Handled(w, post, outcome, result, calls, trace) ==
    [w |-> w, post |-> post, outcome |-> outcome, result |-> result,
     calls |-> calls, trace |-> trace]

\* handle_action with the test for a missing action left out of the turn
handle_action_turn_on_none(w, a, ai) ==
    IF a = NoAction
    THEN Handled(handle_enemy_turns(w, ai), w, None, "True",
                 <<"handle_enemy_turns", "update_fov">>, <<>>)
    ELSE LET r == Perform(w, a)
         IN  CASE r.outcome = "Impossible" ->
                    Handled(add_message(r.w, r.reason, impossible), r.w,
                            r.outcome, "False", <<"perform", "add_message">>, r.trace)
               [] r.outcome = "SystemExit" ->
                    Handled(r.w, r.w, r.outcome, "raised", <<"perform">>, r.trace)
               [] OTHER ->
                    Handled(handle_enemy_turns(r.w, ai), r.w, r.outcome, "True",
                            <<"perform", "handle_enemy_turns", "update_fov">>, r.trace)

\* handle_action with the visibility recomputed before the enemies' turns
handle_action_fov_first(w, a, ai) ==
    IF a = NoAction
    THEN Handled(w, w, None, "False", <<>>, <<>>)
    ELSE LET r == Perform(w, a)
         IN  CASE r.outcome = "Impossible" ->
                    Handled(add_message(r.w, r.reason, impossible), r.w,
                            r.outcome, "False", <<"perform", "add_message">>, r.trace)
               [] r.outcome = "SystemExit" ->
                    Handled(r.w, r.w, r.outcome, "raised", <<"perform">>, r.trace)
               [] OTHER ->
                    Handled(handle_enemy_turns(r.w, ai), r.w, r.outcome, "True",
                            <<"perform", "update_fov", "handle_enemy_turns">>, r.trace)

\* handle_action that logs an Impossible and lets the turn elapse all the same
handle_action_turn_after_impossible(w, a, ai) ==
    IF a = NoAction
    THEN Handled(w, w, None, "False", <<>>, <<>>)
    ELSE LET r == Perform(w, a)
         IN  CASE r.outcome = "Impossible" ->
                    Handled(handle_enemy_turns(add_message(r.w, r.reason, impossible), ai),
                            r.w, r.outcome, "True",
                            <<"perform", "add_message", "handle_enemy_turns", "update_fov">>,
                            r.trace)
               [] r.outcome = "SystemExit" ->
                    Handled(r.w, r.w, r.outcome, "raised", <<"perform">>, r.trace)
               [] OTHER ->
                    Handled(handle_enemy_turns(r.w, ai), r.w, r.outcome, "True",
                            <<"perform", "handle_enemy_turns", "update_fov">>, r.trace)

\* handle_action whose except clause catches every exception, SystemExit too
handle_action_catch_all(w, a, ai) ==
    IF a = NoAction
    THEN Handled(w, w, None, "False", <<>>, <<>>)
    ELSE LET r == Perform(w, a)
         IN  CASE r.outcome \in {"Impossible", "SystemExit"} ->
                    Handled(add_message(r.w, r.reason, impossible), r.w,
                            r.outcome, "False", <<"perform", "add_message">>, r.trace)
               [] OTHER ->
                    Handled(handle_enemy_turns(r.w, ai), r.w, r.outcome, "True",
                            <<"perform", "handle_enemy_turns", "update_fov">>, r.trace)

\* EventHandler.handle_action(action); ai is the enemy's choice of turn
handle_action(w, a, ai) ==
    IF a = NoAction
    THEN Handled(w, w, None, "False", <<>>, <<>>)
    ELSE LET r == Perform(w, a)
         IN  CASE r.outcome = "Impossible" ->
                    Handled(add_message(r.w, r.reason, impossible), r.w,
                            r.outcome, "False", <<"perform", "add_message">>, r.trace)
               [] r.outcome = "SystemExit" ->
                    Handled(r.w, r.w, r.outcome, "raised", <<"perform">>, r.trace)
               [] OTHER ->
                    Handled(handle_enemy_turns(r.w, ai), r.w, r.outcome, "True",
                            <<"perform", "handle_enemy_turns", "update_fov">>, r.trace)

\* The state of the event handler: its class and, for a HistoryViewer, its
\* fields.
HandlerState(h, c, n) == [handler |-> h, cursor |-> c, log_length |-> n]

\* HistoryViewer.__init__
HistoryViewer(w) ==
    HandlerState("HistoryViewer", Len(w.messages) - 1, Len(w.messages))

\* MainGameEventHandler(engine)
MainGame == HandlerState("MainGame", 0, 0)

\* MainGameEventHandler.ev_keydown opening the history on unbound keys too
MainGame_ev_keydown_history_default(w, hs, key) ==
    IF key \in DOMAIN MOVE_KEYS
    THEN [action |-> Action("Bump", "player", MOVE_KEYS[key][1], MOVE_KEYS[key][2]),
          hs |-> hs]
    ELSE IF key \in WAIT_KEYS
    THEN [action |-> Action("Wait", "player", 0, 0), hs |-> hs]
    ELSE IF key = "K_ESCAPE"
    THEN [action |-> Action("Escape", "player", 0, 0), hs |-> hs]
    ELSE [action |-> NoAction, hs |-> HistoryViewer(w)]

\* MainGameEventHandler.ev_keydown: the action returned and the handler left
MainGame_ev_keydown(w, hs, key) ==
    IF key \in DOMAIN MOVE_KEYS
    THEN [action |-> Action("Bump", "player", MOVE_KEYS[key][1], MOVE_KEYS[key][2]),
          hs |-> hs]
    ELSE IF key \in WAIT_KEYS
    THEN [action |-> Action("Wait", "player", 0, 0), hs |-> hs]
    ELSE IF key = "K_v"
    THEN [action |-> NoAction, hs |-> HistoryViewer(w)]
    ELSE IF key = "K_ESCAPE"
    THEN [action |-> Action("Escape", "player", 0, 0), hs |-> hs]
    ELSE [action |-> NoAction, hs |-> hs]

\* HistoryViewer.ev_keydown with the edge test of the step down off by one
HistoryViewer_ev_keydown_late_wrap(w, hs, key) ==
    IF key \in DOMAIN CURSOR_Y_KEYS
    THEN LET adjust == CURSOR_Y_KEYS[key]
         IN  IF adjust < 0 /\ hs.cursor = 0
             THEN [action |-> NoAction, hs |-> [hs EXCEPT !.cursor = hs.log_length]]
             ELSE IF adjust > 0 /\ hs.cursor = hs.log_length
             THEN [action |-> NoAction, hs |-> [hs EXCEPT !.cursor = 0]]
             ELSE [action |-> NoAction,
                   hs |-> [hs EXCEPT !.cursor =
                             Max(0, Min(hs.cursor + adjust, hs.log_length - 1))]]
    ELSE IF key = "K_HOME"
    THEN [action |-> NoAction, hs |-> [hs EXCEPT !.cursor = 0]]
    ELSE IF key = "K_END"
    THEN [action |-> NoAction, hs |-> [hs EXCEPT !.cursor = hs.log_length - 1]]
    ELSE [action |-> NoAction, hs |-> MainGame]

\* HistoryViewer.ev_keydown: returns no action
HistoryViewer_ev_keydown(w, hs, key) ==
    IF key \in DOMAIN CURSOR_Y_KEYS
    THEN LET adjust == CURSOR_Y_KEYS[key]
         IN  IF adjust < 0 /\ hs.cursor = 0
             THEN [action |-> NoAction, hs |-> [hs EXCEPT !.cursor = hs.log_length]]
             ELSE IF adjust > 0 /\ hs.cursor = hs.log_length - 1
             THEN [action |-> NoAction, hs |-> [hs EXCEPT !.cursor = 0]]
             ELSE [action |-> NoAction,
                   hs |-> [hs EXCEPT !.cursor =
                             Max(0, Min(hs.cursor + adjust, hs.log_length - 1))]]
    ELSE IF key = "K_HOME"
    THEN [action |-> NoAction, hs |-> [hs EXCEPT !.cursor = 0]]
    ELSE IF key = "K_END"
    THEN [action |-> NoAction, hs |-> [hs EXCEPT !.cursor = hs.log_length - 1]]
    ELSE [action |-> NoAction, hs |-> MainGame]

\* GameOverEventHandler.ev_keydown with the escape key not handled
GameOver_ev_keydown_ignores_escape(w, hs, key) ==
    [action |-> NoAction, hs |-> hs, exit |-> FALSE]

\* GameOverEventHandler.ev_keydown: raises SystemExit (exit) on the escape
\* key and returns no action otherwise
GameOver_ev_keydown(w, hs, key) ==
    [action |-> NoAction, hs |-> hs, exit |-> (key = "K_ESCAPE")]

\* EventHandler.ev_mousemotion: the mouse location left; returns no action
ev_mousemotion(ml, tile) ==
    IF in_bounds(tile[1], tile[2]) THEN tile ELSE ml

\* ------------------------------------------------------------ the machine
TheWorld == World(pos, fighter, messages)
TheHandler == HandlerState(handler, cursor, log_length)

\* How far the key events since the history viewer was opened are into a
\* round trip: "entered" (just opened), "up1" / "up10" (then one step up, of
\* one line or of a page), "back1" / "back10" (then one step down of the
\* same size), "none" (anything else).
TripAfter(trip, type, key, h, hs) ==
    IF type # "keydown" THEN "none"
    ELSE IF h = "MainGame" /\ hs.handler = "HistoryViewer" THEN "entered"
    ELSE IF h # "HistoryViewer" THEN "none"
    ELSE IF trip = "entered" /\ key = "K_UP" THEN "up1"
    ELSE IF trip = "entered" /\ key = "K_PAGEUP" THEN "up10"
    ELSE IF trip = "up1" /\ key = "K_DOWN" THEN "back1"
    ELSE IF trip = "up10" /\ key = "K_PAGEDOWN" THEN "back10"
    ELSE "none"

\* The record kept of one delivered event: the event, the handler state it
\* met (handler, cursor, log_length), the handler state it left (hs), the
\* action dispatched and what handle_action did with it.
Last(type, key, hs, a, h, w) ==
    [type |-> type, key |-> key, handler |-> handler, cursor |-> cursor,
     log_length |-> log_length, action |-> a,
     trip |-> TripAfter(last.trip, type, key, handler, hs),
     outcome |-> h.outcome, result |-> h.result, calls |-> h.calls,
     trace |-> h.trace, pre |-> w, post |-> h.post]

\* The state left by handle_events: dispatch gave action a and left handler
\* state hs; handle_action(a) gave h.
Commit(type, key, hs, a, h, ml) ==
    /\ Len(h.w.messages) <= MaxLog
    /\ mouse_location' = ml
    /\ pos' = h.w.pos
    /\ fighter' = h.w.fighter
    /\ messages' = h.w.messages
    /\ handler' = hs.handler
    /\ cursor' = hs.cursor
    /\ log_length' = hs.log_length
    /\ running' = (h.result # "raised")
    /\ last' = Last(type, key, hs, a, h, TheWorld)

\* The state left when SystemExit is raised while the event is dispatched,
\* before handle_action is called.
Terminate(type, key) ==
    /\ running' = FALSE
    /\ last' = Last(type, key, TheHandler, NoAction,
                    Handled(TheWorld, TheWorld, "SystemExit", "raised", <<>>, <<>>),
                    TheWorld)
    /\ UNCHANGED <<pos, fighter, messages, handler, cursor, log_length, mouse_location>>

Init ==
    /\ pos = [e \in Entities |->
                CASE e = "player" -> <<0, 0>>
                  [] e = "orc" -> <<0, Height - 1>>
                  [] e = "crate" -> <<Width - 1, 0>>]
    /\ \E of \in OrcFighters :
         fighter = [a \in Actors |-> IF a = "player" THEN PlayerFighter ELSE of]
    /\ messages = <<>>
    /\ handler \in {"MainGame", "GameOver"}
    /\ cursor = 0
    /\ log_length = 0
    /\ running = TRUE
    /\ mouse_location = <<0, 0>>
    /\ last = [type |-> "init", key |-> None, handler |-> handler, cursor |-> 0,
               log_length |-> 0, action |-> NoAction, trip |-> "none", outcome |-> None, result |-> None,
               calls |-> <<>>, trace |-> <<>>, pre |-> TheWorld, post |-> TheWorld]

\* handle_events(KeyDown) while the main game handler is installed
MainGameKeyDown ==
    /\ running
    /\ handler = "MainGame"
    /\ \E key \in Keys, ai \in EnemyChoices :
         \E d \in {MainGame_ev_keydown(TheWorld, TheHandler, key)} :
           \E h \in {handle_action(TheWorld, d.action, ai)} :
             Commit("keydown", key, d.hs, d.action, h, mouse_location)

\* handle_events(KeyDown) while the history viewer is installed (no action
\* is returned, so the enemies get no turn to choose)
HistoryViewerKeyDown ==
    /\ running
    /\ handler = "HistoryViewer"
    /\ \E key \in Keys, ai \in {"wait"} :
         \E d \in {HistoryViewer_ev_keydown(TheWorld, TheHandler, key)} :
           \E h \in {handle_action(TheWorld, d.action, ai)} :
             Commit("keydown", key, d.hs, d.action, h, mouse_location)

\* handle_events(KeyDown) while the game over handler is installed
GameOverKeyDown ==
    /\ running
    /\ handler = "GameOver"
    /\ \E key \in Keys, ai \in {"wait"} :
         \E d \in {GameOver_ev_keydown(TheWorld, TheHandler, key)} :
           IF d.exit
           THEN Terminate("keydown", key)
           ELSE \E h \in {handle_action(TheWorld, d.action, ai)} :
                  Commit("keydown", key, d.hs, d.action, h, mouse_location)

\* handle_events(MouseMotion), whatever handler is installed
MouseMotion ==
    /\ running
    /\ \E tile \in MouseTiles, ai \in {"wait"} :
         \E h \in {handle_action(TheWorld, NoAction, ai)} :
           Commit("mousemotion", None, TheHandler, NoAction, h,
                  ev_mousemotion(mouse_location, tile))

\* handle_events(Quit): ev_quit raises SystemExit before any action is handled
Quit ==
    /\ running
    /\ Terminate("quit", None)

\* Actions handed to handle_action by a caller other than ev_keydown, in
\* the four orthogonal directions.
DirectDirs == {d \in Dirs : d[1] = 0 \/ d[2] = 0}
DirectActions ==
    {Action("Melee", "player", d[1], d[2]) : d \in DirectDirs}
      \cup {Action("Movement", "player", d[1], d[2]) : d \in DirectDirs}
      \cup {RaisingAction("player", r) : r \in ImpossibleReasons}

\* handle_action(action) called with an action built by its caller
HandleAction ==
    /\ running
    /\ handler = "MainGame"
    /\ \E a \in DirectActions, ai \in EnemyChoices :
         \E h \in {handle_action(TheWorld, a, ai)} :
           Commit("action", None, TheHandler, a, h, mouse_location)

\* Key, mouse and quit events, and direct calls of handle_action.
Next ==
    \/ MainGameKeyDown
    \/ HistoryViewerKeyDown
    \/ GameOverKeyDown
    \/ MouseMotion
    \/ Quit
    \/ HandleAction

Spec == Init /\ [][Next]_vars

\* ================================================================ claims
Range(s) == {s[i] : i \in 1..Len(s)}

\* The sweep and the recompute, as handle_action calls them.
TurnCalls == {"handle_enemy_turns", "update_fov"}

\* The destination of the last action, in the world it was performed in.
LastDest ==
    <<last.pre.pos[last.action.entity][1] + last.action.dx,
      last.pre.pos[last.action.entity][2] + last.action.dy>>

\* The last event handed handle_action an action and perform() was called.
LastPerformed == last.type \in {"keydown", "action"} /\ last.action # NoAction

\* C1: every action whose perform() returns without raising is followed by
\* the enemy-turn sweep, once, then the visibility recompute, once, in that
\* order, and handle_action returns True.
C1_TurnElapses ==
    (LastPerformed /\ last.outcome = "ok") =>
        /\ last.calls = <<"perform", "handle_enemy_turns", "update_fov">>
        /\ last.result = "True"

\* A successful bump was handled: the player walked and the turn elapsed.
C1_Witness ==
    /\ last.action.kind = "Bump"
    /\ last.outcome = "ok"
    /\ last.post.pos["player"] # last.pre.pos["player"]
    /\ last.result = "True"

\* C2: when perform() raises Impossible, handle_action appends exactly one
\* message, the reason in the impossible colour, calls neither the sweep nor
\* the recompute, returns False, and the exception goes no further.
C2_ImpossibleIsLogged ==
    (LastPerformed /\ last.outcome = "Impossible") =>
        /\ messages = Append(last.pre.messages,
                             [text |-> last.action.reason, fg |-> impossible])
        /\ Range(last.calls) \cap TurnCalls = {}
        /\ last.result = "False"
        /\ running
        /\ pos = last.pre.pos /\ fighter = last.pre.fighter

\* An action raised Impossible and its reason is the newest message.
C2_Witness ==
    /\ last.outcome = "Impossible"
    /\ last.action.reason \in ImpossibleReasons
    /\ Len(messages) = Len(last.pre.messages) + 1
    /\ messages[Len(messages)].fg = impossible

\* After EscapeAction's SystemExit nothing was swept, recomputed or logged
\* and the session is over.
EscapeLeaves ==
    (LastPerformed /\ last.action.kind = "Escape") =>
        /\ last.outcome = "SystemExit"
        /\ last.result = "raised"
        /\ last.calls = <<"perform">>
        /\ messages = last.pre.messages
        /\ pos = last.pre.pos /\ fighter = last.pre.fighter
        /\ ~running

\* C3: the SystemExit raised by EscapeAction.perform leaves handle_action
\* uncaught: no sweep, no recompute and no message for that action, and no
\* event is processed once the session is over.
C3_EscapePropagates == [](EscapeLeaves) /\ [][running]_vars

\* The escape key was pressed in the main game and the session ended.
C3_Witness ==
    /\ last.type = "keydown"
    /\ last.action.kind = "Escape"
    /\ ~running

\* C4: BumpAction delegates to MeleeAction, and never to MovementAction, when
\* an actor stands at the destination, and to MovementAction, never to
\* MeleeAction, when none does; the world it leaves, the way it ends and the
\* calls it makes after the lookup are the delegate's.
C4_BumpDelegates ==
    (LastPerformed /\ last.action.kind = "Bump") =>
        LET a == last.action
            occupied == \E e \in Actors : last.pre.pos[e] = LastDest
            melee == MeleePerform(last.pre, Action("Melee", a.entity, a.dx, a.dy))
            movement == MovementPerform(last.pre, Action("Movement", a.entity, a.dx, a.dy))
            delegate == IF occupied THEN melee ELSE movement
        IN  /\ Len(last.trace) >= 2
            /\ last.trace[2] = IF occupied THEN "MeleeAction" ELSE "MovementAction"
            /\ Range(last.trace) \cap {"MeleeAction", "MovementAction"}
                 = {IF occupied THEN "MeleeAction" ELSE "MovementAction"}
            /\ SubSeq(last.trace, 3, Len(last.trace)) = delegate.trace
            /\ last.post = delegate.w
            /\ last.outcome = delegate.outcome

\* The player bumped into the orc and attacked it.
C4_Witness ==
    /\ last.action.kind = "Bump"
    /\ last.pre.pos["orc"] = LastDest
    /\ "MeleeAction" \in Range(last.trace)
    /\ Len(last.post.messages) = Len(last.pre.messages) + 1

\* ---------------------------------------------------- movement (C5 - C8)
\* The last action was a MovementAction, built by the caller or by BumpAction.
LastMovement ==
    /\ LastPerformed
    /\ \/ last.action.kind = "Movement"
       \/ /\ last.action.kind = "Bump"
          /\ \A e \in Actors : last.pre.pos[e] # LastDest

\* The calls made by that MovementAction.
MovementTrace ==
    IF last.action.kind = "Bump"
    THEN SubSeq(last.trace, 3, Len(last.trace))
    ELSE last.trace

DestOutOfBounds ==
    \/ LastDest[1] < 0 \/ LastDest[1] > Width - 1
    \/ LastDest[2] < 0 \/ LastDest[2] > Height - 1
DestWall == LastDest \in Walls
DestBlocked == \E e \in BlocksMovement : last.pre.pos[e] = LastDest
MovementIllegal == DestOutOfBounds \/ DestWall \/ DestBlocked

\* C5: a MovementAction whose destination is out of bounds, not walkable
\* or held by a blocking entity raises Impossible.
C5_MovementRaises ==
    (LastMovement /\ MovementIllegal) => last.outcome = "Impossible"

\* C6: when a MovementAction fails a legality check the turn does not
\* advance: no sweep, no recompute, and handle_action returns False.
C6_FailedMovementNoTurn ==
    (LastMovement /\ MovementIllegal) =>
        /\ Range(last.calls) \cap TurnCalls = {}
        /\ last.result = "False"

\* C7: a MovementAction whose destination is out of bounds, not walkable or
\* held by a blocking entity leaves every position, every fighter and the
\* message log as they were, and it checks bounds, then the tile, then the
\* occupancy, stopping at the first check that fails: the tile of a
\* destination outside the map is never looked up.
C7_FailedMovementFrame ==
    (LastMovement /\ MovementIllegal) =>
        /\ last.post = last.pre
        /\ MovementTrace =
             IF DestOutOfBounds THEN <<"in_bounds">>
             ELSE IF DestWall THEN <<"in_bounds", "walkable">>
             ELSE <<"in_bounds", "walkable", "blocking_entity">>

\* A MovementAction towards a tile outside the map was performed.
C7_Witness ==
    /\ LastMovement
    /\ DestOutOfBounds
    /\ last.post.pos = last.pre.pos
    /\ "walkable" \notin Range(last.trace)

\* C8: a BumpAction towards a walkable tile of the map that holds no entity
\* moves the player by exactly (dx, dy), leaves every other position, every
\* fighter and the message log as they were, and the turn elapses: the
\* sweep, then the recompute, and handle_action returns True.  (The effect
\* is that of perform(); what the enemies do in their sweep comes after it.)
C8_BumpMoves ==
    ( /\ LastPerformed
      /\ last.action.kind = "Bump"
      /\ ~DestOutOfBounds /\ ~DestWall
      /\ \A e \in Entities : last.pre.pos[e] # LastDest ) =>
        /\ last.post.pos =
             [e \in Entities |->
                IF e = "player"
                THEN <<last.pre.pos[e][1] + last.action.dx,
                       last.pre.pos[e][2] + last.action.dy>>
                ELSE last.pre.pos[e]]
        /\ last.post.fighter = last.pre.fighter
        /\ last.post.messages = last.pre.messages
        /\ last.calls = <<"perform", "handle_enemy_turns", "update_fov">>
        /\ last.result = "True"
        /\ pos = last.post.pos

\* The player at (0, 0) bumped towards (1, 0) and stands there.
C8_Witness ==
    /\ last.type = "keydown"
    /\ last.action.kind = "Bump"
    /\ last.action.dx = 1 /\ last.action.dy = 0
    /\ last.pre.pos["player"] = <<0, 0>>
    /\ pos["player"] = <<1, 0>>
    /\ last.result = "True"

\* ------------------------------------------------------ melee (C9, C10)
\* The last action was a MeleeAction, built by the caller or by BumpAction.
LastMelee ==
    /\ LastPerformed
    /\ \/ last.action.kind = "Melee"
       \/ /\ last.action.kind = "Bump"
          /\ \E e \in Actors : last.pre.pos[e] = LastDest

\* It found a target.
LastMeleeHasTarget == LastMelee /\ \E e \in Actors : last.pre.pos[e] = LastDest
LastTarget == CHOOSE e \in Actors : last.pre.pos[e] = LastDest
LastDamage ==
    last.pre.fighter[last.action.entity].power - last.pre.fighter[LastTarget].defense

\* The player's damage on the orc, and the attacks of the player in the log.
PlayerDamage == fighter["player"].power - fighter["orc"].defense
PlayerAttacks == {i \in 1..Len(messages) : messages[i].fg = player_atk}

\* The message of an attack that does damage.
HitMessage(attacker, target, damage, fg) ==
    [text |-> <<capitalize(attacker), " attacks ", target, " for ">>
                \o IntStr(damage) \o <<" hit points.">>,
     fg |-> fg]

\* The message of an attack that does none.
NoDamageMessage(attacker, target, fg) ==
    [text |-> <<capitalize(attacker), " attacks ", target, " but does no damage">>,
     fg |-> fg]

\* The one message of a damaging attack, and the same text for every attack.
DamagingAttackNarrated ==
    /\ (LastMeleeHasTarget /\ LastDamage > 0) =>
          last.post.messages =
            Append(last.pre.messages,
                   HitMessage(last.action.entity, LastTarget, LastDamage, player_atk))
    /\ \A i, j \in PlayerAttacks : messages[i].text = messages[j].text

C10_NoDamage ==
    /\ (LastMeleeHasTarget /\ LastDamage <= 0) =>
          /\ last.post.fighter = last.pre.fighter
          /\ last.post.pos = last.pre.pos
          /\ last.post.messages =
               Append(last.pre.messages,
                      NoDamageMessage(last.action.entity, LastTarget, player_atk))
    /\ (LastMelee /\ ~LastMeleeHasTarget) => last.post = last.pre
    /\ \A i \in 1..Len(messages) :
          messages[i].fg # impossible =>
             /\ messages[i].text[1] = "Player" <=> messages[i].fg = player_atk
             /\ messages[i].text[1] # "Player" <=> messages[i].fg = enemy_atk

\* The orc attacked the player without effect, then the player the orc.
C10_Witness ==
    /\ LastMeleeHasTarget
    /\ LastDamage <= 0
    /\ Len(messages) = 2
    /\ messages[1] = NoDamageMessage("orc", "player", enemy_atk)
    /\ messages[2] = NoDamageMessage("player", "orc", player_atk)
    /\ fighter["orc"].hp = fighter["orc"].max_hp

\* ------------------------------------------- history viewer (C11, C12)
StepKeys == {"K_UP", "K_DOWN", "K_PAGEUP", "K_PAGEDOWN"}
CursorKeys == StepKeys \cup {"K_HOME", "K_END"}

\* The last event was a key pressed while the history viewer was installed.
LastHistoryKey == last.type = "keydown" /\ last.handler = "HistoryViewer"

\* The size of the step of a step key.
StepOf(key) ==
    CASE key = "K_UP" -> -1 [] key = "K_DOWN" -> 1
      [] key = "K_PAGEUP" -> -10 [] key = "K_PAGEDOWN" -> 10

C12_RoundTrip ==
    last.trip \in {"back1", "back10"} => cursor = log_length - 1

\* ------------------------------------------------ modes (C13, C14, C15)
\* The main-game keys bound to nothing.
UnboundKeys == Keys \ (DOMAIN MOVE_KEYS \cup WAIT_KEYS \cup {"K_v", "K_ESCAPE"})

LastKeyIn(h) == last.type = "keydown" /\ last.handler = h

\* C13: exactly one of the three handlers is installed; a main-game event
\* changes the handler only when it is the history key, and then to a
\* history viewer with log_length the length of the log and cursor
\* log_length - 1; a history-viewer event changes it only when it is a key
\* other than a step, home or end key, and then to the main game; a
\* game-over event never changes it; and every key has a dispatch result in
\* each of the three handlers.
C13_ModeTransitions ==
    /\ handler \in Handlers
    /\ last.type # "init" =>
         IF LastKeyIn("MainGame") /\ last.key = "K_v"
         THEN /\ handler = "HistoryViewer"
              /\ log_length = Len(last.pre.messages)
              /\ cursor = log_length - 1
         ELSE IF LastKeyIn("HistoryViewer") /\ last.key \notin CursorKeys
         THEN handler = "MainGame"
         ELSE handler = last.handler
    /\ \A key \in Keys :
         /\ MainGame_ev_keydown(TheWorld, MainGame, key).hs.handler
              \in {"MainGame", "HistoryViewer"}
         /\ HistoryViewer_ev_keydown(TheWorld, HistoryViewer(TheWorld), key).hs.handler
              \in {"MainGame", "HistoryViewer"}
         /\ GameOver_ev_keydown(TheWorld, HandlerState("GameOver", 0, 0), key).hs.handler
              = "GameOver"

\* The history key opened the viewer on a log of two messages.
C13_Witness ==
    /\ LastKeyIn("MainGame")
    /\ last.key = "K_v"
    /\ handler = "HistoryViewer"
    /\ log_length = 2
    /\ cursor = 1

\* C14: a quit event ends the session under each of the three handlers; in
\* the game-over handler the escape key ends it, and any other key yields no
\* action, keeps the handler, runs no turn and changes neither the actors
\* nor the log.
C14_QuitAndGameOver ==
    /\ last.type = "quit" =>
         ~running /\ last.outcome = "SystemExit" /\ TheWorld = last.pre
    /\ LastKeyIn("GameOver") =>
         IF last.key = "K_ESCAPE"
         THEN ~running /\ last.outcome = "SystemExit" /\ TheWorld = last.pre
         ELSE /\ running
              /\ last.action = NoAction
              /\ handler = "GameOver"
              /\ last.result = "False"
              /\ last.calls = <<>>
              /\ TheWorld = last.pre

\* The escape key ended the session under the game-over handler.
C14_Witness ==
    /\ LastKeyIn("GameOver")
    /\ last.key = "K_ESCAPE"
    /\ ~running

\* The last event was a key that yields no action: any key in the history
\* viewer, the history key or an unbound key in the main game.
LastKeyWithoutAction ==
    \/ LastKeyIn("HistoryViewer")
    \/ LastKeyIn("MainGame") /\ last.key \in UnboundKeys \cup {"K_v"}

\* C15: a key that yields no action makes handle_action return False with
\* no enemy turn, no visibility update, nothing appended to the log and no
\* actor changed; and the log of a history viewer is the log it was opened
\* on, whatever keys it has handled.
C15_NoActionNoTurn ==
    /\ LastKeyWithoutAction =>
         /\ last.action = NoAction
         /\ last.result = "False"
         /\ last.calls = <<>>
         /\ TheWorld = last.pre
         /\ running
    /\ handler = "HistoryViewer" => log_length = Len(messages)

\* An unbound key was pressed in the main game next to an orc that can hit.
C15_Witness ==
    /\ LastKeyIn("MainGame")
    /\ last.key \in UnboundKeys
    /\ EnemyAttacks(TheWorld) # {}
    /\ Len(messages) >= 1

\* ------------------------------------------------------ positions (C16)
\* The entities whose position the last event changed.
Moved == {e \in Entities : pos[e] # last.pre.pos[e]}

\* C16: the position of an entity changes only when a movement (direct or
\* delegated by a bump) reaches its move, and then only the position of the
\* entity acting, to the destination; a wait, an attack and a movement that
\* fails leave every position as it was, and a wait changes no fighter and
\* appends no message.
C16_OnlyMovementMoves ==
    /\ Moved # {} =>
         /\ last.action.kind \in {"Movement", "Bump"}
         /\ MovementTrace = <<"in_bounds", "walkable", "blocking_entity", "move">>
         /\ Moved = {last.action.entity}
         /\ pos[last.action.entity] = LastDest
    /\ last.post.pos # last.pre.pos => Moved # {}
    /\ (LastMovement /\ MovementIllegal) => Moved = {}
    /\ LastMelee => Moved = {}
    /\ last.action.kind = "Wait" => last.post = last.pre /\ Moved = {}

\* The player waited with messages in the log, and the turn passed.
C16_Witness ==
    /\ last.action.kind = "Wait"
    /\ last.result = "True"
    /\ Len(last.pre.messages) >= 1
    /\ last.post = last.pre

C18_CursorIsIndex ==
    (handler = "HistoryViewer" /\ log_length >= 1) =>
        0 <= cursor /\ cursor <= log_length - 1

\* ------------------------------------------------- the player's tile (C19)
Abs(n) == IF n < 0 THEN -n ELSE n

\* C19: the player stands on a tile inside the map, walkable and shared
\* with no other blocking entity; every key of MOVE_KEYS gives a direction
\* with both components in -1..1 and not (0, 0); and no event moves the
\* player by more than one tile along either axis.
C19_PlayerTileLegal ==
    /\ in_bounds(pos["player"][1], pos["player"][2])
    /\ is_walkable(pos["player"][1], pos["player"][2])
    /\ \A e \in BlocksMovement \ {"player"} : pos[e] # pos["player"]
    /\ \A key \in DOMAIN MOVE_KEYS :
         /\ MOVE_KEYS[key][1] \in -1..1
         /\ MOVE_KEYS[key][2] \in -1..1
         /\ MOVE_KEYS[key] # <<0, 0>>
    /\ Abs(pos["player"][1] - last.pre.pos["player"][1]) <= 1
    /\ Abs(pos["player"][2] - last.pre.pos["player"][2]) <= 1

\* The player, one step from the start, bumped into the crate and stayed.
C19_Witness ==
    /\ LastKeyIn("MainGame")
    /\ last.action.kind = "Bump"
    /\ last.pre.pos["player"] # <<0, 0>>
    /\ LastDest = pos["crate"]
    /\ pos["player"] = last.pre.pos["player"]

\* -------------------------------------------------- bump's lookups (C20)
LastBump == LastPerformed /\ last.action.kind = "Bump"

\* C20: the melee attack a bump delegates to finds the target the bump
\* found, so that it appends exactly one message and never returns by its
\* branch for a missing target; the movement a bump delegates to finds no
\* actor at its destination.
C20_LookupsAgree ==
    /\ (LastBump /\ last.trace[2] = "MeleeAction") =>
         /\ \E e \in Actors : last.pre.pos[e] = LastDest
         /\ SubSeq(last.trace, 3, Len(last.trace)) # <<"target_actor">>
         /\ last.trace[4] = "add_message"
         /\ Len(last.post.messages) = Len(last.pre.messages) + 1
    /\ (LastBump /\ last.trace[2] = "MovementAction") =>
         /\ \A e \in Actors : last.pre.pos[e] # LastDest
         /\ Len(last.post.messages) = Len(last.pre.messages)
    /\ (LastBump /\ \E e \in Actors : last.pre.pos[e] = LastDest) =>
         /\ last.trace[2] = "MeleeAction"
         /\ Len(last.post.messages) = Len(last.pre.messages) + 1

\* A bump into an orc too well armoured to hurt appended its one message.
C20_Witness ==
    /\ LastBump
    /\ last.trace = <<"target_actor", "MeleeAction", "target_actor", "add_message">>
    /\ Len(last.post.messages) = Len(last.pre.messages) + 1

====
